---- MODULE Spec2Model ----
(***************************************************************************)
(* The relay pipeline of the URL-to-file Telegram bot: handleURL, the      *)
(* ProgressReader it streams the body through, and the status messages it  *)
(* sends and edits.  The repository holds two variants of the program,     *)
(* src/main.go and src/unnamed/part_000; the variable `variant` says which *)
(* one runs.  They differ in the size gate (commented out in main.go) and  *)
(* in how a failure is reported (an edit in main.go, a new message in      *)
(* part_000).                                                              *)
(***************************************************************************)
EXTENDS Integers, Sequences, FiniteSets, TLC

\* ------------------------------------------------------------------ bounds
\* Longest body the GET stream delivers, in bytes.
MaxBody == 2
\* Largest number of bytes one Read call returns (io.Copy's buffer).
MaxChunk == 2
\* Last instant of the clock, in seconds.
MaxTime == 4
\* Longest time one editMessageText call takes, in seconds.
MaxEditDelay == 1
\* Longest body of a run in which two commands are handled at once.
ConcBody == 1

\* ------------------------------------------------------- program constants
Variants == {"main", "part_000"}

\* MAX_TELEGRAM_FILE_SIZE of each variant.
MAX_TELEGRAM_FILE_SIZE(v) ==
    IF v = "main" THEN 2000 * 1024 * 1024 ELSE 50 * 1024 * 1024

\* 2*time.Second of the progress closure, in seconds.
ThrottleInterval == 2

\* The goroutines `go handleURL(...)` can start.
Tasks == {1, 2}
\* The tasks of a run that handles one command at a time.
SeqTasks == {1}

\* Names os.CreateTemp can draw for "telegram-*-<fileName>".
Names == {"n1", "n2"}

\* The bodies a GET response can deliver.  handleURL and ProgressReader never
\* look at a byte's value, so byte i of a body is tagged i: a byte dropped,
\* repeated, moved or changed on the way to the file shows.
Bodies == {[i \in 1 .. k |-> i] : k \in 0 .. MaxBody}

\* Content-Length values a HEAD response can declare: -1 is "unknown".
DeclaredLengths(v) ==
    {-1, 0} \cup (1 .. MaxBody)
        \cup {MAX_TELEGRAM_FILE_SIZE(v), MAX_TELEGRAM_FILE_SIZE(v) + 1}

\* HTTP status codes of a HEAD response that arrived (err == nil).
HeadStatuses == {200, 404}

\* ------------------------------------------------------------------- state
VARIABLES
    variant,     \* which source file is the program
    now,         \* the monotonic clock, in seconds
    fs,          \* names of the temporary files that exist
    pc,          \* pc[t]: where task t is in handleURL
    exit,        \* exit[t]: the return statement task t left through
    fileSize,    \* fileSize[t]: resp.ContentLength of the HEAD response
    headStatus,  \* headStatus[t]: resp.StatusCode of the HEAD response
    src,         \* src[t]: the bytes the GET body would deliver
    srcEnd,      \* src[t] ends with io.EOF ("eof") or an I/O error ("err")
    downloaded,  \* pr.downloaded
    staged,      \* the contents written to tempFile
    tempName,    \* tempFile.Name(), "" before CreateTemp
    lastUpdate,  \* the closure's lastUpdate
    tapStart,    \* the instant the progress closure was created
    reported,    \* the values handed to pr.onProgress, in order
    pctTimes,    \* the instants at which the percentage edit was issued
    hist,        \* the external calls of the request and their outcomes, in order
    removes      \* how many times os.Remove ran for the request

vars == <<variant, now, fs, pc, exit, fileSize, headStatus, src, srcEnd,
          downloaded, staged, tempName, lastUpdate, tapStart, reported,
          pctTimes, hist, removes>>

\* ----------------------------------------------------------------- helpers
Min(a, b) == IF a <= b THEN a ELSE b

\* A bot.Send of a chat message: op is "send" (NewMessage) or "edit"
\* (NewEditMessageText), val the percentage a "pct" text shows, ok whether
\* the gateway accepted it.
Msg(op, text, val, ok) == [op |-> op, text |-> text, val |-> val, ok |-> ok]

\* A call on the network, the filesystem or the upload primitive, with
\* whether it returned a nil error.
Op(name, ok) == [op |-> name, text |-> "", val |-> 0, ok |-> ok]

IsMsg(e) == e.op \in {"send", "edit"}
IsOp(e) == ~IsMsg(e)

\* The percentage when the factor 100 is left out: a fraction of 1.
ProgressAsFraction(d, total) == (d * 1000) \div total

\* progress := float64(pr.downloaded) / float64(pr.total) * 100, kept in
\* thousandths of a percent (100% is 100000).
Progress(d, total) == (d * 100 * 1000) \div total

\* The guard on the callback when only a zero total is taken for unknown.
ReportsProgressNonZero(total) == total # 0

\* ProgressReader.Read's guard on the callback.
ReportsProgress(total) == total > 0

\* The closure's guard when it compares against half the interval.
ThrottleOpenEarly(t0, last) == t0 - last >= ThrottleInterval - 1

\* The closure's guard: time.Since(lastUpdate) >= 2*time.Second.
ThrottleOpen(t0, last) == t0 - last >= ThrottleInterval

\* if fileSize > MAX_TELEGRAM_FILE_SIZE: live in part_000, commented out in
\* main.go.
TooLarge(v, size) ==
    IF v = "main" THEN FALSE ELSE size > MAX_TELEGRAM_FILE_SIZE(v)

\* How a failure is reported: updateMessage in main.go, sendErrorMessage in
\* part_000.
ErrorOp(v) == IF v = "main" THEN "edit" ELSE "send"

\* The count Read returns when the tap returns 0 with any error, io.EOF
\* included, and so drops the bytes that came with it.
TapReturnsNothingOnErr(n, er) == IF er = "nil" THEN n ELSE 0

\* return n, err: the tap hands io.Copy the count and the error the body's
\* Read returned, untouched.
TapReturns(n, er) == n

\* The test of io.Copy's result when a failed Read is taken for the end of
\* the body.
CopyErrWriteOnly(werr, er) == werr

\* _, err = io.Copy(tempFile, progressReader); if err != nil: io.Copy returns
\* a Write error or short write (werr), or Read's error unless it is io.EOF.
CopyErr(werr, er) == werr \/ er = "err"

\* The names that can be drawn when the file is created under a name that
\* depends on the URL alone (os.Create), whether or not it exists.
AnyName(files) == Names

\* os.CreateTemp("", "telegram-*-"+fileName): the random part of the name is
\* redrawn until the name is one no existing file has (O_EXCL).
FreshNames(files) == Names \ files

\* The deferred calls when only tempFile.Close() is deferred.
ReleaseForgotten(files, name) == files

\* defer os.Remove(tempFile.Name()): the files left after the deferred calls.
Release(files, name) == files \ {name}

\* -------------------------------------------------------------------- Init
Init ==
    /\ variant \in Variants
    /\ now = 0
    /\ fs = {}
    /\ pc = [t \in Tasks |-> "idle"]
    /\ exit = [t \in Tasks |-> ""]
    /\ fileSize = [t \in Tasks |-> 0]
    /\ headStatus = [t \in Tasks |-> 0]
    /\ src = [t \in Tasks |-> <<>>]
    /\ srcEnd = [t \in Tasks |-> "eof"]
    /\ downloaded = [t \in Tasks |-> 0]
    /\ staged = [t \in Tasks |-> <<>>]
    /\ tempName = [t \in Tasks |-> ""]
    /\ lastUpdate = [t \in Tasks |-> 0]
    /\ tapStart = [t \in Tasks |-> 0]
    /\ reported = [t \in Tasks |-> <<>>]
    /\ pctTimes = [t \in Tasks |-> <<>>]
    /\ hist = [t \in Tasks |-> <<>>]
    /\ removes = [t \in Tasks |-> 0]

\* ----------------------------------------------------------------- actions
\* The return statement `how` of handleURL, after the calls `h` were made:
\* the deferred tempFile.Close() and os.Remove(tempFile.Name()) run when a
\* temporary file was created.
Return(t, how, h) ==
    /\ pc' = [pc EXCEPT ![t] = "returned"]
    /\ exit' = [exit EXCEPT ![t] = how]
    /\ IF tempName[t] # ""
       THEN /\ fs' = Release(fs, tempName[t])
            /\ removes' = [removes EXCEPT ![t] = @ + 1]
            /\ hist' = [hist EXCEPT ![t] = h \o <<Op("remove", TRUE)>>]
       ELSE /\ hist' = [hist EXCEPT ![t] = h]
            /\ UNCHANGED <<fs, removes>>

\* main's loop: a "/url <url>" command starts handleURL in a goroutine.
Dispatch(t) ==
    /\ pc[t] = "idle"
    /\ pc' = [pc EXCEPT ![t] = "send_status"]
    /\ UNCHANGED <<variant, now, fs, exit, fileSize, headStatus, src, srcEnd,
                   downloaded, staged, tempName, lastUpdate, tapStart, reported,
                   pctTimes, hist, removes>>

\* The initial message when bot.Send's error is dropped as updateMessage
\* drops it: handleURL goes on with a zero status.MessageID.
SendStatusUnchecked(t) ==
    /\ pc[t] = "send_status"
    /\ \E ok \in BOOLEAN :
         hist' = [hist EXCEPT ![t] = @ \o <<Msg("send", "starting", 0, ok)>>]
    /\ pc' = [pc EXCEPT ![t] = "head"]
    /\ UNCHANGED <<variant, now, fs, exit, removes, fileSize, headStatus, src,
                   srcEnd, downloaded, staged, tempName, lastUpdate, tapStart,
                   reported, pctTimes>>

\* status, err := bot.Send(statusMsg); return on error.
SendStatus(t) ==
    /\ pc[t] = "send_status"
    /\ \E ok \in BOOLEAN :
         LET h == hist[t] \o <<Msg("send", "starting", 0, ok)>>
         IN IF ok
            THEN /\ pc' = [pc EXCEPT ![t] = "head"]
                 /\ hist' = [hist EXCEPT ![t] = h]
                 /\ UNCHANGED <<exit, fs, removes>>
            ELSE Return(t, "send_failed", h)
    /\ UNCHANGED <<variant, now, fileSize, headStatus, src, srcEnd,
                   downloaded, staged, tempName, lastUpdate, tapStart, reported,
                   pctTimes>>

\* resp, err := http.Head(url); fileSize := resp.ContentLength; the size gate.
HttpHead(t) ==
    /\ pc[t] = "head"
    /\ \/ \E ok \in BOOLEAN :
            /\ Return(t, "head_failed",
                      hist[t] \o <<Op("head", FALSE),
                                   Msg(ErrorOp(variant), "fail_info", 0, ok)>>)
            /\ UNCHANGED <<fileSize, headStatus>>
       \/ \E size \in DeclaredLengths(variant), st \in HeadStatuses :
            /\ fileSize' = [fileSize EXCEPT ![t] = size]
            /\ headStatus' = [headStatus EXCEPT ![t] = st]
            /\ IF TooLarge(variant, size)
               THEN \E ok \in BOOLEAN :
                      Return(t, "too_large",
                             hist[t] \o <<Op("head", TRUE),
                                          Msg(ErrorOp(variant), "too_large", 0, ok)>>)
               ELSE /\ pc' = [pc EXCEPT ![t] = "get"]
                    /\ hist' = [hist EXCEPT ![t] = @ \o <<Op("head", TRUE)>>]
                    /\ UNCHANGED <<exit, fs, removes>>
    /\ UNCHANGED <<variant, now, src, srcEnd, downloaded, staged, tempName,
                   lastUpdate, tapStart, reported, pctTimes>>

\* The GET call when a failure sends handleURL back to the probe to try
\* again instead of returning.
HttpGetRetrying(t) ==
    /\ pc[t] = "get"
    /\ \/ /\ pc' = [pc EXCEPT ![t] = "head"]
          /\ hist' = [hist EXCEPT ![t] = @ \o <<Op("get", FALSE)>>]
          /\ UNCHANGED <<src, srcEnd>>
       \/ \E body \in Bodies, end \in {"eof", "err"} :
            /\ src' = [src EXCEPT ![t] = body]
            /\ srcEnd' = [srcEnd EXCEPT ![t] = end]
            /\ pc' = [pc EXCEPT ![t] = "create"]
            /\ hist' = [hist EXCEPT ![t] = @ \o <<Op("get", TRUE)>>]
    /\ UNCHANGED <<variant, now, fs, exit, removes, fileSize, headStatus,
                   downloaded, staged, tempName, lastUpdate, tapStart,
                   reported, pctTimes>>

\* resp, err = http.Get(url): the body the response will deliver.
HttpGet(t) ==
    /\ pc[t] = "get"
    /\ \/ \E ok \in BOOLEAN :
            /\ Return(t, "get_failed",
                      hist[t] \o <<Op("get", FALSE),
                                   Msg(ErrorOp(variant), "fail_download", 0, ok)>>)
            /\ UNCHANGED <<src, srcEnd>>
       \/ \E body \in Bodies, end \in {"eof", "err"} :
            /\ src' = [src EXCEPT ![t] = body]
            /\ srcEnd' = [srcEnd EXCEPT ![t] = end]
            /\ pc' = [pc EXCEPT ![t] = "create"]
            /\ hist' = [hist EXCEPT ![t] = @ \o <<Op("get", TRUE)>>]
            /\ UNCHANGED <<exit, fs, removes>>
    /\ UNCHANGED <<variant, now, fileSize, headStatus, downloaded, staged,
                   tempName, lastUpdate, tapStart, reported, pctTimes>>

\* The creation of the file when its failure is reported and the `return`
\* after the report is missing: handleURL goes on with a nil tempFile.
CreateTempNoReturn(t) ==
    /\ pc[t] = "create"
    /\ \/ \E ok \in BOOLEAN :
            /\ hist' = [hist EXCEPT ![t] =
                         @ \o <<Op("create", FALSE),
                                Msg(ErrorOp(variant), "fail_tempfile", 0, ok)>>]
            /\ UNCHANGED <<tempName, fs>>
       \/ \E n \in FreshNames(fs) :
            /\ tempName' = [tempName EXCEPT ![t] = n]
            /\ fs' = fs \cup {n}
            /\ hist' = [hist EXCEPT ![t] = @ \o <<Op("create", TRUE)>>]
    /\ lastUpdate' = [lastUpdate EXCEPT ![t] = now]
    /\ tapStart' = [tapStart EXCEPT ![t] = now]
    /\ pc' = [pc EXCEPT ![t] = "copy"]
    /\ UNCHANGED <<variant, now, exit, removes, fileSize, headStatus, src,
                   srcEnd, downloaded, staged, reported, pctTimes>>

\* tempFile, err := os.CreateTemp(...); the two defers; lastUpdate := time.Now().
CreateTemp(t) ==
    /\ pc[t] = "create"
    /\ \/ \E ok \in BOOLEAN :
            /\ Return(t, "create_failed",
                      hist[t] \o <<Op("create", FALSE),
                                   Msg(ErrorOp(variant), "fail_tempfile", 0, ok)>>)
            /\ UNCHANGED <<tempName, lastUpdate, tapStart>>
       \/ \E n \in FreshNames(fs) :
            /\ tempName' = [tempName EXCEPT ![t] = n]
            /\ fs' = fs \cup {n}
            /\ lastUpdate' = [lastUpdate EXCEPT ![t] = now]
            /\ tapStart' = [tapStart EXCEPT ![t] = now]
            /\ pc' = [pc EXCEPT ![t] = "copy"]
            /\ hist' = [hist EXCEPT ![t] = @ \o <<Op("create", TRUE)>>]
            /\ UNCHANGED <<exit, removes>>
    /\ UNCHANGED <<variant, now, fileSize, headStatus, src, srcEnd,
                   downloaded, staged, reported, pctTimes>>

\* One iteration of io.Copy(tempFile, progressReader): ProgressReader.Read
\* (the body's Read, the counter, the callback and its throttled percentage
\* edit), then tempFile.Write of the bytes read, then the test of Read's error.
\* n is the number of bytes read and er the error Read returns with them, nw
\* the number of bytes written and werr whether Write failed or fell short.
CopyStep(t) ==
    /\ pc[t] = "copy"
    /\ \E n \in 0 .. Min(MaxChunk, Len(src[t]) - downloaded[t]),
          er \in {"nil", srcEnd[t]},
          ok \in BOOLEAN, dt \in 0 .. Min(MaxEditDelay, MaxTime - now),
          nw \in 0 .. MaxChunk, werr \in BOOLEAN, okf \in BOOLEAN :
         LET d == downloaded[t] + n
             chunk == SubSeq(src[t], downloaded[t] + 1, d)
             calls == ReportsProgress(fileSize[t])
             p == IF calls THEN Progress(d, fileSize[t]) ELSE 0
             fires == calls /\ ThrottleOpen(now, lastUpdate[t])
             h1 == IF fires
                   THEN hist[t] \o <<Msg("edit", "pct", p, ok)>>
                   ELSE hist[t]
             failed == CopyErr(werr, er)
         IN /\ er = "nil" => n > 0
            /\ er # "nil" => d = Len(src[t])
            /\ ~fires => (ok /\ dt = 0)
            /\ nw <= TapReturns(n, er)
            /\ TapReturns(n, er) = 0 => ~werr
            /\ ~werr => nw = TapReturns(n, er)
            /\ ~failed => okf
            /\ downloaded' = [downloaded EXCEPT ![t] = d]
            /\ reported' = IF calls
                           THEN [reported EXCEPT ![t] = Append(@, p)]
                           ELSE reported
            /\ pctTimes' = IF fires
                           THEN [pctTimes EXCEPT ![t] = Append(@, now)]
                           ELSE pctTimes
            /\ now' = now + dt
            /\ lastUpdate' = IF fires
                             THEN [lastUpdate EXCEPT ![t] = now + dt]
                             ELSE lastUpdate
            /\ staged' = [staged EXCEPT ![t] = @ \o SubSeq(chunk, 1, nw)]
            /\ IF failed
               THEN Return(t, "copy_failed",
                           h1 \o <<Op("copy", FALSE),
                                   Msg(ErrorOp(variant), "fail_save", 0, okf)>>)
               ELSE /\ pc' = [pc EXCEPT ![t] =
                                 IF er = "nil" THEN "copy" ELSE "notify_upload"]
                    /\ hist' = [hist EXCEPT ![t] =
                                 IF er = "nil" THEN h1
                                 ELSE h1 \o <<Op("copy", TRUE)>>]
                    /\ UNCHANGED <<exit, fs, removes>>
    /\ UNCHANGED <<variant, fileSize, headStatus, src, srcEnd, tempName,
                   tapStart>>

\* The "uploading" update when updateMessage's failure is returned and
\* handleURL gives up on it.
NotifyUploadingChecked(t) ==
    /\ pc[t] = "notify_upload"
    /\ \E ok \in BOOLEAN :
         LET h == hist[t] \o <<Msg("edit", "uploading", 0, ok)>>
         IN IF ok
            THEN /\ pc' = [pc EXCEPT ![t] = "upload"]
                 /\ hist' = [hist EXCEPT ![t] = h]
                 /\ UNCHANGED <<exit, fs, removes>>
            ELSE Return(t, "edit_failed", h)
    /\ UNCHANGED <<variant, now, fileSize, headStatus, src, srcEnd,
                   downloaded, staged, tempName, lastUpdate, tapStart, reported,
                   pctTimes>>

\* The "uploading" update when it goes through the progress closure's gate
\* like a percentage.
NotifyUploadingThrottled(t) ==
    /\ pc[t] = "notify_upload"
    /\ IF ThrottleOpen(now, lastUpdate[t])
       THEN \E ok \in BOOLEAN :
              hist' = [hist EXCEPT ![t] = @ \o <<Msg("edit", "uploading", 0, ok)>>]
       ELSE UNCHANGED hist
    /\ pc' = [pc EXCEPT ![t] = "upload"]
    /\ UNCHANGED <<variant, now, fs, exit, fileSize, headStatus, src, srcEnd,
                   downloaded, staged, tempName, lastUpdate, tapStart, reported,
                   pctTimes, removes>>

\* updateMessage(..., "Uploading to Telegram..."): bot.Send's result is dropped.
NotifyUploading(t) ==
    /\ pc[t] = "notify_upload"
    /\ \E ok \in BOOLEAN :
         hist' = [hist EXCEPT ![t] = @ \o <<Msg("edit", "uploading", 0, ok)>>]
    /\ pc' = [pc EXCEPT ![t] = "upload"]
    /\ UNCHANGED <<variant, now, fs, exit, fileSize, headStatus, src, srcEnd,
                   downloaded, staged, tempName, lastUpdate, tapStart, reported,
                   pctTimes, removes>>

\* The upload when bot.Send(doc)'s error is dropped like an edit's.
UploadUnchecked(t) ==
    /\ pc[t] = "upload"
    /\ \E ok \in BOOLEAN :
         hist' = [hist EXCEPT ![t] = @ \o <<Op("upload", ok)>>]
    /\ pc' = [pc EXCEPT ![t] = "notify_success"]
    /\ UNCHANGED <<variant, now, fs, exit, fileSize, headStatus, src, srcEnd,
                   downloaded, staged, tempName, lastUpdate, tapStart, reported,
                   pctTimes, removes>>

\* tempFile.Seek(0, 0); _, err = bot.Send(doc).
Upload(t) ==
    /\ pc[t] = "upload"
    /\ \/ \E ok \in BOOLEAN :
            Return(t, "upload_failed",
                   hist[t] \o <<Op("upload", FALSE),
                                Msg(ErrorOp(variant), "fail_send", 0, ok)>>)
       \/ /\ pc' = [pc EXCEPT ![t] = "notify_success"]
          /\ hist' = [hist EXCEPT ![t] = @ \o <<Op("upload", TRUE)>>]
          /\ UNCHANGED <<exit, fs, removes>>
    /\ UNCHANGED <<variant, now, fileSize, headStatus, src, srcEnd,
                   downloaded, staged, tempName, lastUpdate, tapStart, reported,
                   pctTimes>>

\* updateMessage(..., "File sent successfully!") and the end of handleURL.
NotifySuccess(t) ==
    /\ pc[t] = "notify_success"
    /\ \E ok \in BOOLEAN :
         Return(t, "end", hist[t] \o <<Msg("edit", "success", 0, ok)>>)
    /\ UNCHANGED <<variant, now, fileSize, headStatus, src, srcEnd,
                   downloaded, staged, tempName, lastUpdate, tapStart, reported,
                   pctTimes>>

\* A second passes.  The clock is read only by handleURL's lastUpdate and
\* by the progress closure, so it is left alone while no copy is running.
Tick ==
    /\ now < MaxTime
    /\ \E t \in Tasks : pc[t] = "copy"
    /\ now' = now + 1
    /\ UNCHANGED <<variant, fs, pc, exit, fileSize, headStatus, src, srcEnd,
                   downloaded, staged, tempName, lastUpdate, tapStart, reported,
                   pctTimes, hist, removes>>

\* ----------------------------------------------------------- specification
Step(t) ==
    \/ Dispatch(t)
    \/ SendStatus(t)
    \/ HttpHead(t)
    \/ HttpGet(t)
    \/ CreateTemp(t)
    \/ CopyStep(t)
    \/ NotifyUploading(t)
    \/ Upload(t)
    \/ NotifySuccess(t)

\* One command at a time.
Next == Tick \/ \E t \in SeqTasks : Step(t)

Spec == Init /\ [][Next]_vars

\* One command at a time, every call returning: Go's scheduler runs a
\* goroutine that can run, and a call that returns lets handleURL take its
\* next step.  The clock is under no obligation.
FairSpec == Spec /\ \A t \in SeqTasks : WF_vars(Step(t))

\* The inputs of a run in which two commands are handled at once: short
\* bodies, no declared length above one byte, status 200, every message
\* accepted by the gateway.  Calls on the network and the filesystem may
\* still fail.
ConcInputs ==
    \A t \in Tasks :
        /\ Len(src[t]) <= ConcBody
        /\ fileSize[t] <= 1
        /\ headStatus[t] \in {0, 200}
        /\ \A i \in 1 .. Len(hist[t]) : hist[t][i].ok \/ IsOp(hist[t][i])

\* Two commands at once: each `go handleURL` runs on its own, in any
\* interleaving with the other.
ConcStep(t) ==
    \/ Dispatch(t) /\ ConcInputs'
    \/ SendStatus(t) /\ ConcInputs'
    \/ HttpHead(t) /\ ConcInputs'
    \/ HttpGet(t) /\ ConcInputs'
    \/ CreateTemp(t) /\ ConcInputs'
    \/ CopyStep(t) /\ ConcInputs'
    \/ NotifyUploading(t) /\ ConcInputs'
    \/ Upload(t) /\ ConcInputs'
    \/ NotifySuccess(t) /\ ConcInputs'

NextConc == \E t \in Tasks : ConcStep(t)

SpecConc == Init /\ [][NextConc]_vars

\* ------------------------------------------------------------ observations
\* The chat messages and the other external calls of request t, in order.
Log(t) == SelectSeq(hist[t], IsMsg)
Ops(t) == SelectSeq(hist[t], IsOp)

\* Request t made the call `op`; it made it and the call returned `ok`.
Called(t, op) == \E i \in 1 .. Len(hist[t]) : hist[t][i].op = op
CalledWith(t, op, ok) ==
    \E i \in 1 .. Len(hist[t]) : hist[t][i].op = op /\ hist[t][i].ok = ok

\* Request t sent or edited a message with the text `text`.
Said(t, text) ==
    \E i \in 1 .. Len(hist[t]) : IsMsg(hist[t][i]) /\ hist[t][i].text = text

\* No body fetch, no staged file and no upload for request t.
NoTransfer(t) ==
    ~Called(t, "get") /\ ~Called(t, "create") /\ ~Called(t, "upload")

Returned(t) == pc[t] = "returned"

\* ------------------------------------------------------------------ claims
\* C1: a request that acquired a temporary file has removed it exactly once
\* when handleURL has returned, whichever return statement it left through;
\* until then the file exists and has not been removed.
C1_StagedFileReleasedOnce ==
    \A t \in SeqTasks :
        /\ removes[t] <= 1
        /\ (tempName[t] # "" /\ Returned(t)) =>
              (tempName[t] \notin fs /\ removes[t] = 1)
        /\ (tempName[t] # "" /\ ~Returned(t)) =>
              (tempName[t] \in fs /\ removes[t] = 0)
        /\ tempName[t] = "" => removes[t] = 0

\* C1 witness: the upload failed after a complete download, and the fully
\* written file is gone.
C1_Witness ==
    /\ Returned(1) /\ exit[1] = "upload_failed"
    /\ Len(staged[1]) = MaxBody /\ staged[1] = src[1]
    /\ tempName[1] # "" /\ tempName[1] \notin fs /\ removes[1] = 1

\* C2: a request whose declared length exceeds MAX_TELEGRAM_FILE_SIZE makes
\* no GET call, acquires no temporary file and makes no upload call.
C2_OversizeNeverFetched ==
    \A t \in SeqTasks :
        (CalledWith(t, "head", TRUE)
            /\ fileSize[t] > MAX_TELEGRAM_FILE_SIZE(variant)) => NoTransfer(t)

\* C3: the first message call of a request creates its status message, and
\* every later message call of the request is an edit, never a second send.
C3_OneStatusMessage ==
    \A t \in SeqTasks :
        \A i \in 1 .. Len(Log(t)) :
            IF i = 1
            THEN Log(t)[i].op = "send" /\ Log(t)[i].text = "starting"
            ELSE Log(t)[i].op = "edit"

\* C4: when the HEAD probe fails, by an error or by a status outside 2xx,
\* the request makes no GET call, acquires no file, makes no upload call,
\* and returns through a rejection with its failure reported.
C4_ProbeFailureRejects ==
    \A t \in SeqTasks :
        (\/ CalledWith(t, "head", FALSE)
         \/ CalledWith(t, "head", TRUE) /\ headStatus[t] \notin 200 .. 299) =>
            /\ NoTransfer(t)
            /\ Returned(t) =>
                  \/ exit[t] = "head_failed" /\ Said(t, "fail_info")
                  \/ exit[t] = "too_large" /\ Said(t, "too_large")

\* C5: when the probe declares no positive length, the request is let
\* through to the GET call, the callback is never invoked and no percentage
\* edit is issued.
C5_UnknownLengthNoProgress ==
    \A t \in SeqTasks :
        (CalledWith(t, "head", TRUE) /\ fileSize[t] <= 0) =>
            /\ pc[t] = "get" \/ Called(t, "get")
            /\ reported[t] = <<>>
            /\ pctTimes[t] = <<>>
            /\ ~Said(t, "pct")

\* C5 witness: a body of MaxBody bytes was downloaded and uploaded under an
\* unknown length, two seconds or more after the closure was created.
C5_Witness ==
    /\ fileSize[1] = -1 /\ Returned(1) /\ exit[1] = "end"
    /\ downloaded[1] = MaxBody /\ now - tapStart[1] >= 2

\* C6: when the body delivers exactly the declared total T > 0, the values
\* handed to the callback never decrease, and once all T bytes are read the
\* last value handed over is exactly 100.
C6_ProgressMonotoneEndsAt100 ==
    \A t \in SeqTasks :
        (fileSize[t] > 0 /\ Len(src[t]) = fileSize[t]) =>
            /\ \A i, j \in 1 .. Len(reported[t]) :
                   i <= j => reported[t][i] <= reported[t][j]
            /\ downloaded[t] = fileSize[t] =>
                   /\ reported[t] # <<>>
                   /\ reported[t][Len(reported[t])] = 100 * 1000

\* C6 witness: T = 2 read as two chunks of one byte and the end of data.
C6_Witness ==
    /\ fileSize[1] = 2 /\ Len(src[1]) = 2
    /\ reported[1] = <<50 * 1000, 100 * 1000, 100 * 1000>>
    /\ CalledWith(1, "copy", TRUE)

\* C7: every value handed to the callback lies between 0 and 100.
C7_ProgressInRange ==
    \A t \in SeqTasks :
        \A i \in 1 .. Len(reported[t]) :
            0 <= reported[t][i] /\ reported[t][i] <= 100 * 1000

\* C8: a percentage edit is issued only 2 seconds or more after the
\* previous one, the first one 2 seconds or more after the closure was
\* created; a callback that finds the gate closed issues nothing, then or
\* later: the edits are as many as the recorded instants, at most one per
\* callback, and each shows a value handed to the callback.
C8_ThrottleTwoSeconds ==
    \A t \in SeqTasks :
        /\ \A i \in 1 .. Len(pctTimes[t]) :
               pctTimes[t][i] - (IF i = 1 THEN tapStart[t] ELSE pctTimes[t][i - 1]) >= 2
        /\ Len(SelectSeq(hist[t], LAMBDA e : e.text = "pct")) = Len(pctTimes[t])
        /\ Len(pctTimes[t]) <= Len(reported[t])
        /\ \A i \in 1 .. Len(hist[t]) :
               hist[t][i].text = "pct" =>
                   \E j \in 1 .. Len(reported[t]) : reported[t][j] = hist[t][i].val

\* C8 witness: two percentage edits, and a callback between them that was
\* dropped.
C8_Witness ==
    /\ Len(pctTimes[1]) = 2
    /\ Len(reported[1]) = 3
    /\ Returned(1) /\ exit[1] = "end"

\* C9: the upload call is made only after the copy ended with no error, the
\* whole body in the file; a copy that ended with an error has made the
\* request return with the failure reported and without an upload call.
C9_UploadOnlyAfterCleanCopy ==
    \A t \in SeqTasks :
        /\ Called(t, "upload") =>
              /\ \E i, j \in 1 .. Len(hist[t]) :
                     /\ i < j
                     /\ hist[t][i] = Op("copy", TRUE)
                     /\ hist[t][j].op = "upload"
              /\ srcEnd[t] = "eof"
              /\ staged[t] = src[t]
        /\ CalledWith(t, "copy", FALSE) =>
              /\ ~Called(t, "upload")
              /\ Returned(t) /\ exit[t] = "copy_failed"
              /\ Said(t, "fail_save")

\* C9 witness: the body failed after one byte was staged.
C9_Witness ==
    /\ Returned(1) /\ exit[1] = "copy_failed"
    /\ srcEnd[1] = "err" /\ Len(staged[1]) = 1 /\ staged[1] = src[1]
    /\ ~Called(1, "upload") /\ tempName[1] \notin fs

\* The return statement that the outcomes of the calls other than message
\* edits lead to, "" while they lead to none yet.
ExitOfOutcomes(t) ==
    LET o == SelectSeq(Ops(t), LAMBDA e : e.op # "remove")
        last == o[Len(o)]
    IN IF hist[t] # <<>> /\ ~hist[t][1].ok THEN "send_failed"
       ELSE IF o = <<>> THEN ""
       ELSE IF ~last.ok THEN last.op \o "_failed"
       ELSE IF last.op = "head" /\ variant # "main"
                  /\ fileSize[t] > MAX_TELEGRAM_FILE_SIZE(variant) THEN "too_large"
       ELSE IF last.op = "upload" THEN "end"
       ELSE ""

\* The calls other than messages that lead to the return statement `how`.
OpsOfExit(how) ==
    LET all == <<"head", "get", "create", "copy", "upload">>
        n == CASE how = "send_failed" -> 0
               [] how \in {"head_failed", "too_large"} -> 1
               [] how = "get_failed" -> 2
               [] how = "create_failed" -> 3
               [] how = "copy_failed" -> 4
               [] OTHER -> 5
        failed == how \in {"head_failed", "get_failed", "create_failed",
                           "copy_failed", "upload_failed"}
    IN [i \in 1 .. n |-> Op(all[i], ~(failed /\ i = n))]
           \o (IF n >= 4 THEN <<Op("remove", TRUE)>> ELSE <<>>)

\* C10: whether message edits fail or not, a request that has returned left
\* through the return statement the outcomes of its other calls lead to,
\* after exactly the calls that lead there; a request that has not returned
\* has no such return statement behind it.
C10_EditFailureNeverAborts ==
    \A t \in SeqTasks :
        IF Returned(t)
        THEN /\ exit[t] = ExitOfOutcomes(t)
             /\ Ops(t) = OpsOfExit(exit[t])
        ELSE hist[t] # <<>> => ExitOfOutcomes(t) \in {"", "end"}

\* C10 witness: every edit of the request failed, a percentage edit among
\* them, and the file was uploaded all the same.
C10_Witness ==
    /\ Returned(1) /\ exit[1] = "end"
    /\ Said(1, "pct") /\ Said(1, "uploading") /\ Said(1, "success")
    /\ \A i \in 2 .. Len(Log(1)) : ~Log(1)[i].ok


\* How many message calls of request t carry the text `text`.
CountSaid(t, text) ==
    Len(SelectSeq(Log(t), LAMBDA e : e.text = text))

\* C11: the success update is issued only after the upload call returned
\* success, at most once, and nothing of the request follows it but the
\* release of the file; a request that has returned issued it exactly when
\* its upload succeeded, and never when it left through a failure or a
\* rejection.
C11_SuccessOnlyAfterUpload ==
    \A t \in SeqTasks :
        /\ CountSaid(t, "success") <= 1
        /\ Said(t, "success") =>
              /\ CalledWith(t, "upload", TRUE)
              /\ Log(t)[Len(Log(t))].text = "success"
              /\ Log(t)[Len(Log(t))].op = "edit"
              /\ Returned(t) /\ exit[t] = "end"
        /\ Returned(t) =>
              /\ Said(t, "success") <=> CalledWith(t, "upload", TRUE)
              /\ exit[t] # "end" => ~Said(t, "success")

\* C11 witness: scenario A, a body of MaxBody bytes with the declared length,
\* staged whole, uploaded, and the success edit the last of four messages
\* or more.
C11_Witness ==
    /\ Returned(1) /\ exit[1] = "end"
    /\ fileSize[1] = MaxBody /\ staged[1] = src[1] /\ Len(staged[1]) = MaxBody
    /\ Len(Log(1)) >= 4
    /\ Log(1)[Len(Log(1))] = Msg("edit", "success", 0, TRUE)


\* C12: when the copy ended with no error, the file holds exactly the bytes
\* the body delivered, in their order, and pr.downloaded is the number of
\* bytes in the file; while the copy runs, the file holds the bytes
\* delivered so far.
C12_StagedIsExactCopy ==
    \A t \in SeqTasks :
        /\ CalledWith(t, "copy", TRUE) =>
              /\ staged[t] = src[t]
              /\ downloaded[t] = Len(staged[t])
        /\ pc[t] = "copy" =>
              /\ staged[t] = SubSeq(src[t], 1, downloaded[t])
              /\ downloaded[t] = Len(staged[t])

\* C12 witness: a body of MaxBody bytes read in more than one chunk, with
\* progress reported along the way, is in the file when the copy has ended.
C12_Witness ==
    /\ pc[1] = "notify_upload"
    /\ Len(src[1]) = MaxBody /\ staged[1] = src[1]
    /\ downloaded[1] = MaxBody
    /\ Len(reported[1]) >= 2


\* Request t holds a temporary file: it created one and has not returned.
Holding(t) == tempName[t] # "" /\ ~Returned(t)

\* C13: in every interleaving of two requests, no two of them hold a file
\* of the same name, the file of a request that holds one exists whatever
\* the other request released, and the files that exist are exactly those
\* held: a request's file is gone once it has returned.
C13_StagedFilesDisjoint ==
    /\ \A t1, t2 \in Tasks :
          (t1 # t2 /\ Holding(t1) /\ Holding(t2)) => tempName[t1] # tempName[t2]
    /\ \A t \in Tasks : Holding(t) => tempName[t] \in fs
    /\ fs = {tempName[t] : t \in {u \in Tasks : Holding(u)}}
    /\ \A t \in Tasks :
          /\ removes[t] <= 1
          /\ (Returned(t) /\ tempName[t] # "") => removes[t] = 1

\* C13 witness: request 1 has returned and released its file while request
\* 2, its body staged and its upload not yet made, still has its own.
C13_Witness ==
    /\ Returned(1) /\ tempName[1] # "" /\ removes[1] = 1
    /\ tempName[1] \notin fs
    /\ pc[2] = "upload" /\ Len(staged[2]) = ConcBody
    /\ tempName[2] \in fs /\ tempName[2] # tempName[1]


\* The phase a message text belongs to: the initial message, a percentage,
\* the "uploading" update, a terminal update.
PhaseOf(text) ==
    CASE text = "starting" -> 1
      [] text = "pct" -> 2
      [] text = "uploading" -> 3
      [] OTHER -> 4

\* The position of the first call `op` of request t, 0 when there is none.
FirstAt(t, op) ==
    IF Called(t, op)
    THEN CHOOSE i \in 1 .. Len(hist[t]) :
            /\ hist[t][i].op = op
            /\ \A j \in 1 .. i - 1 : hist[t][j].op # op
    ELSE 0

\* C14: the messages of a request come in phase order, the initial message
\* first and once, then percentages, then at most one "uploading" update,
\* then at most one terminal update and nothing after it.  Percentages are
\* issued only between the creation of the file and the end of the copy.
\* The "uploading" update is issued right after every copy that ended with
\* no error, whatever the throttle's clock, and before the upload call.
C14_StatusPhaseOrder ==
    \A t \in SeqTasks :
        LET L == Log(t)
            h == hist[t]
        IN /\ L # <<>> => L[1].text = "starting"
           /\ \A i, j \in 1 .. Len(L) :
                 i < j =>
                   /\ PhaseOf(L[i].text) <= PhaseOf(L[j].text)
                   /\ PhaseOf(L[i].text) = PhaseOf(L[j].text) => L[i].text = "pct"
           /\ \A i \in 1 .. Len(h) :
                 h[i].text = "pct" =>
                   /\ 0 < FirstAt(t, "create") /\ FirstAt(t, "create") < i
                   /\ Called(t, "copy") => i < FirstAt(t, "copy")
           /\ \A i \in 1 .. Len(h) :
                 h[i].text = "uploading" =>
                   /\ i > 1 /\ h[i - 1] = Op("copy", TRUE)
                   /\ Called(t, "upload") => i < FirstAt(t, "upload")
           /\ (CalledWith(t, "copy", TRUE) /\ pc[t] # "notify_upload") =>
                 Said(t, "uploading")
           /\ Called(t, "upload") => Said(t, "uploading")

\* C14 witness: a percentage edit, then the "uploading" update less than 2
\* seconds after it, then the upload and the success update.
C14_Witness ==
    /\ Returned(1) /\ exit[1] = "end"
    /\ Len(pctTimes[1]) = 1 /\ now - pctTimes[1][1] < 2
    /\ Len(Log(1)) = 4
    /\ Log(1)[2].text = "pct" /\ Log(1)[3].text = "uploading"
    /\ Log(1)[4].text = "success"


\* How far along handleURL a position is.
Rank(p) ==
    CASE p = "idle" -> 0
      [] p = "send_status" -> 1
      [] p = "head" -> 2
      [] p = "get" -> 3
      [] p = "create" -> 4
      [] p = "copy" -> 5
      [] p = "notify_upload" -> 6
      [] p = "upload" -> 7
      [] p = "notify_success" -> 8
      [] OTHER -> 9

\* A step leaves request t where it is and as it is, or moves it forward;
\* it stays in the copy only by reading at least one more byte.
Advances(t) ==
    \/ Rank(pc'[t]) > Rank(pc[t])
    \/ /\ pc'[t] = "copy" /\ pc[t] = "copy"
       /\ downloaded'[t] > downloaded[t]
    \/ /\ pc'[t] = pc[t]
       /\ hist'[t] = hist[t] /\ downloaded'[t] = downloaded[t]
       /\ exit'[t] = exit[t]

\* C15: when every call returns, a request that was started returns in the
\* end; no step takes it back to a position it has left, and the copy is
\* the only position it stays in, each time with more of the body read.
C15_EveryTaskReturns ==
    /\ \A t \in SeqTasks : (pc[t] = "send_status") ~> Returned(t)
    /\ [][\A t \in SeqTasks : Advances(t)]_vars

\* C15 witness: a request that went round the copy loop three times, the
\* clock running, and returned after the upload.
C15_Witness ==
    /\ Returned(1) /\ exit[1] = "end"
    /\ Len(reported[1]) = MaxBody + 1 /\ now = MaxTime


\* C16: a request whose GET call failed, or whose temporary file could not
\* be created, has returned through that failure with the failure reported
\* as its last message, without an upload call, and with no temporary file
\* of its own: none was created, none exists, none was removed.
C16_FetchOrStagingFailure ==
    \A t \in SeqTasks :
        LET last == Log(t)[Len(Log(t))]
        IN /\ CalledWith(t, "get", FALSE) =>
                 /\ Returned(t) /\ exit[t] = "get_failed"
                 /\ last.text = "fail_download"
                 /\ ~Called(t, "create") /\ ~Called(t, "upload")
                 /\ tempName[t] = "" /\ fs = {} /\ removes[t] = 0
           /\ CalledWith(t, "create", FALSE) =>
                 /\ Returned(t) /\ exit[t] = "create_failed"
                 /\ last.text = "fail_tempfile"
                 /\ ~Called(t, "copy") /\ ~Called(t, "upload")
                 /\ tempName[t] = "" /\ fs = {} /\ removes[t] = 0

\* C16 witness: the probe passed with a declared length, the GET call
\* succeeded and the temporary file could not be created.
C16_Witness ==
    /\ Returned(1) /\ exit[1] = "create_failed"
    /\ fileSize[1] = MaxBody /\ Len(src[1]) = MaxBody
    /\ CalledWith(1, "get", TRUE) /\ CalledWith(1, "create", FALSE)
    /\ Len(Log(1)) = 2 /\ fs = {}


\* C17: a request whose initial message could not be sent has returned at
\* once: the failed send is its only call, so it made no probe, no GET
\* call, created no file, uploaded nothing and sent or edited no message.
C17_InitialSendFailureReturns ==
    \A t \in SeqTasks :
        (hist[t] # <<>> /\ ~hist[t][1].ok) =>
            /\ hist[t] = <<Msg("send", "starting", 0, FALSE)>>
            /\ Returned(t) /\ exit[t] = "send_failed"
            /\ ~Called(t, "head") /\ NoTransfer(t)
            /\ tempName[t] = "" /\ removes[t] = 0 /\ fs = {}

\* C17 witness: the request returned through the failed initial send.
C17_Witness ==
    /\ Returned(1) /\ exit[1] = "send_failed"
    /\ hist[1] = <<Msg("send", "starting", 0, FALSE)>>
    /\ fileSize[1] = 0 /\ headStatus[1] = 0 /\ src[1] = <<>>

====
